---- MODULE Spec2Model ----
(***************************************************************************)
(* Model of MeshGeneratorModel (meshgeneratormodel.py): the delete-element *)
(* range text parser, its canonical text, and the operations that call it; *)
(* the scaffold packages, their parameter sets and mesh edits; the node    *)
(* derivative versions found for the graphics; and parseVector3.           *)
(* Text is a sequence of one-character strings.                            *)
(***************************************************************************)
EXTENDS Integers, Sequences, FiniteSets, TLC

VARIABLES
    deleteElementRanges,   \* self._deleteElementRanges: sequence of <<start, stop>>
    settings,              \* self._settings (the entries the operations below use)
    scaffoldPackages,      \* self._scaffoldPackages: root first, edited package last
    scaffoldPackageOptionNames, \* self._scaffoldPackageOptionNames, "None" for the root
    scaffoldPackageObjects, \* which object each entry of self._scaffoldPackages is
    parameterSetName,      \* self._parameterSetName
    customScaffoldPackage, \* self._customScaffoldPackage: <<>> is None, else <<package>>
    unsavedNodeEdits,      \* self._unsavedNodeEdits
    region,                \* self._region: <<>> is None, else <<elements, nodes of the
                           \* meshEdits group, versions of the node derivatives,
                           \* node-value fields of the graphics>>
    op,                    \* name of the last operation called
    tokensIn,              \* the tokens the last typed text was built from
    elementRangesTextIn,   \* argument of the last _parseDeleteElementsRangesText
    held,                  \* _deleteElementRanges immediately before the last call
    changed,               \* value returned by the last _parseDeleteElementsRangesText
    raised,                \* exception that escaped the last call, "none" if none
    selection,             \* elements selected at the last deleteElementsSelection
    rangeSetIn,            \* the range list handed to a format-then-parse round trip
    regenerations,         \* calls of _generateMesh made by the last operation
    before,                \* self and the arguments when the last setScaffoldOption began
    switched,              \* the package left by the last setParameterSetName when it
                           \* left 'Custom', kept over a direct return to 'Custom'
    vectorIn,              \* arguments of the last parseVector3: components, delimiter, default
    vectorOut                 \* value returned by the last parseVector3

vars == <<deleteElementRanges, settings, scaffoldPackages, scaffoldPackageOptionNames,
          scaffoldPackageObjects,
          parameterSetName, customScaffoldPackage, unsavedNodeEdits, region, op,
          tokensIn, elementRangesTextIn, held, changed, raised, selection, rangeSetIn,
          regenerations, before, switched, vectorIn, vectorOut>>

-----------------------------------------------------------------------------
(* Bounds of the model. *)

\* largest identifier in a text of one token
MaxId1 == 12
\* largest identifier in a text of two tokens
MaxId2 == 6
\* largest identifier in a text of three tokens
MaxId3 == 2
\* most tokens in a text handed to the parser on its own
MaxTokens == 3
\* largest identifier in a text typed into the model with history
MaxTypedId == 3
\* the generated mesh has elements 1..NumElements
NumElements == 3
\* deepest nesting of scaffold packages being edited below the root
MaxNesting == 1
\* round-trip range lists use identifiers -MaxNegative..MaxRoundTripId
MaxNegative == 2
MaxRoundTripId == 10
\* integer scaffold options are typed as 0..MaxOption
MaxOption == 2
\* nodes 1..MaxEditedNode are edited by hand
MaxEditedNode == 1
\* the mesh handed to _createGraphics has nodes 1..NumNodes
NumNodes == 2
\* a node derivative has at most MaxVersions versions
MaxVersions == 3
\* most components in a text handed to parseVector3
MaxComponents == 4

-----------------------------------------------------------------------------
(* Python text primitives. *)

\* string.digits
Digits == <<"0", "1", "2", "3", "4", "5", "6", "7", "8", "9">>

IsDigit(c) == \E k \in 1..Len(Digits) : Digits[k] = c

DigitValue(c) == (CHOOSE k \in 1..Len(Digits) : Digits[k] = c) - 1

\* int(text) raises ValueError unless text is a non-empty string of digits
IntOk(text) == Len(text) > 0 /\ \A k \in 1..Len(text) : IsDigit(text[k])

RECURSIVE IntValue(_)
IntValue(text) ==
    IF Len(text) = 0 THEN 0
    ELSE IntValue(SubSeq(text, 1, Len(text) - 1)) * Len(Digits) + DigitValue(text[Len(text)])

\* str(n) of an integer
RECURSIVE StrNat(_)
StrNat(n) ==
    IF n < Len(Digits) THEN <<Digits[n + 1]>>
    ELSE StrNat(n \div Len(Digits)) \o <<Digits[(n % Len(Digits)) + 1]>>

Str(n) == IF n < 0 THEN <<"-">> \o StrNat(0 - n) ELSE StrNat(n)

\* text.split(delimiter): always at least one part
RECURSIVE Split(_, _)
Split(text, delimiter) ==
    IF \A k \in 1..Len(text) : text[k] # delimiter THEN <<text>>
    ELSE LET k == CHOOSE j \in 1..Len(text) :
                      /\ text[j] = delimiter
                      /\ \A h \in 1..(j - 1) : text[h] # delimiter
         IN  <<SubSeq(text, 1, k - 1)>> \o Split(SubSeq(text, k + 1, Len(text)), delimiter)

\* float(text) ignores blanks around the number
RECURSIVE StripSpaces(_)
StripSpaces(text) ==
    IF Len(text) > 0 /\ text[1] = " " THEN StripSpaces(Tail(text))
    ELSE IF Len(text) > 0 /\ text[Len(text)] = " "
         THEN StripSpaces(SubSeq(text, 1, Len(text) - 1))
         ELSE text

\* the number without its sign
Unsigned(text) ==
    IF Len(text) > 0 /\ text[1] \in {"-", "+"} THEN Tail(text) ELSE text

\* digits with at most one point among them
DecimalOk(body) ==
    /\ \A k \in 1..Len(body) : IsDigit(body[k]) \/ body[k] = "."
    /\ Cardinality({k \in 1..Len(body) : body[k] = "."}) <= 1
    /\ \E k \in 1..Len(body) : IsDigit(body[k])

\* float(text) raises ValueError unless text is a decimal number (texts with
\* an exponent, an underscore, inf or nan are not among the inputs)
FloatOk(text) == DecimalOk(Unsigned(StripSpaces(text)))

\* the digits before and after the point
WholePart(body) == Split(body, ".")[1]

FractionPart(body) ==
    IF Len(Split(body, ".")) > 1 THEN Split(body, ".")[2] ELSE <<>>

\* a decimal of at most two fraction digits, in hundredths
Hundredths(body) ==
    IntValue(WholePart(body)) * 100
      + IntValue(SubSeq(FractionPart(body) \o <<"0", "0">>, 1, 2))

\* float(text), in hundredths
FloatValue(text) ==
    IF Len(StripSpaces(text)) > 0 /\ StripSpaces(text)[1] = "-"
    THEN 0 - Hundredths(Unsigned(StripSpaces(text)))
    ELSE Hundredths(Unsigned(StripSpaces(text)))

-----------------------------------------------------------------------------
(* parseVector3, lines 29-49. *)

\* lines 41-43: float(valueText), or defaultValue when it raises
ComponentValue(valueText, defaultValue) ==
    IF FloatOk(valueText) THEN FloatValue(valueText) ELSE defaultValue

\* lines 39-43
RECURSIVE ComponentLoop(_, _, _, _)
ComponentLoop(valueTexts, k, defaultValue, vector) ==
    IF k > Len(valueTexts) THEN vector
    ELSE ComponentLoop(valueTexts, k + 1, defaultValue,
                       Append(vector, ComponentValue(valueTexts[k], defaultValue)))

\* the first component is repeated
RepeatedFirst(vector) == vector[1]

\* line 48: vector[-1]
Repeated(vector) == vector[Len(vector)]

\* lines 47-48
RECURSIVE AppendLoop(_, _)
AppendLoop(vector, count) ==
    IF count <= 0 THEN vector
    ELSE AppendLoop(Append(vector, Repeated(vector)), count - 1)

\* lines 44-48
ThreeOf(vector) ==
    IF Len(vector) > 3 THEN SubSeq(vector, 1, 3)
    ELSE AppendLoop(vector, 3 - Len(vector))

\* lines 29-49 for a delimiter of one character
parseVector3(vectorText, delimiter, defaultValue) ==
    ThreeOf(ComponentLoop(Split(vectorText, delimiter), 1, defaultValue, <<>>))

-----------------------------------------------------------------------------
(* _parseDeleteElementsRangesText, lines 382-404: text to raw ranges.       *)
(* The loop variable i of lines 389-393 is a local of the whole function:   *)
(* <<>> while unbound, <<k>> once a loop over a non-empty part has run.     *)

\* lines 389-391: the value i is left with by the loop over a non-empty part
LoopIndex(part) ==
    LET size == Len(part)
        hits == {j \in 0..(size - 1) : IsDigit(part[size - j])}
    IN  IF hits = {} THEN size - 1
        ELSE CHOOSE j \in hits : \A h \in hits : j <= h

\* one character too many is cut off
StrippedOneMore(part, i) == SubSeq(part, 1, Len(part) - i - 1)

\* line 393: elementRangeEnds[e][:(size - i)]
Stripped(part, i) == SubSeq(part, 1, Len(part) - i)

\* lines 392-393: i is read whether or not the loop ran
StripIf(part, after) ==
    IF after = <<>>
    THEN [exc |-> "UnboundLocalError", part |-> part, i |-> after]
    ELSE [exc |-> "none",
          part |-> IF after[1] > 0 THEN Stripped(part, after[1]) ELSE part,
          i |-> after]

\* lines 388-393 for one part; the loop leaves i alone when the part is empty
StripEnd(part, iv) ==
    StripIf(part, IF Len(part) = 0 THEN iv ELSE <<LoopIndex(part)>>)

\* lines 387-393: every part in turn, stopping at the first exception;
\* r is the outcome of lines 388-393 for part e
RECURSIVE StripEnds(_, _, _)
StripNext(parts, e, r) ==
    IF r.exc # "none" THEN [exc |-> r.exc, parts |-> parts, i |-> r.i]
    ELSE StripEnds([parts EXCEPT ![e] = r.part], e + 1, r.i)

StripEnds(parts, e, iv) ==
    IF e > Len(parts) THEN [exc |-> "none", parts |-> parts, i |-> iv]
    ELSE StripNext(parts, e, StripEnd(parts[e], iv))

\* the pair is stored as typed
UnorderedRange(start, stop) == <<start, stop>>

\* lines 399-402: the pair is stored with the smaller value first
OrderedRange(start, stop) ==
    IF stop >= start THEN <<start, stop>> ELSE <<stop, start>>

\* lines 394-402: the range of the stripped parts
RangeOfEnds(elementRangeEnds, iv) ==
    IF ~IntOk(elementRangeEnds[1])
    THEN [exc |-> "ValueError", range |-> <<>>, i |-> iv]
    ELSE IF Len(elementRangeEnds) > 1
    THEN IF ~IntOk(elementRangeEnds[2])
         THEN [exc |-> "ValueError", range |-> <<>>, i |-> iv]
         ELSE [exc |-> "none", i |-> iv,
               range |-> OrderedRange(IntValue(elementRangeEnds[1]),
                                      IntValue(elementRangeEnds[2]))]
    ELSE [exc |-> "none", i |-> iv,
          range |-> OrderedRange(IntValue(elementRangeEnds[1]),
                                 IntValue(elementRangeEnds[1]))]

\* s is the outcome of lines 387-393
RangeAfterStrip(s) ==
    IF s.exc # "none" THEN [exc |-> s.exc, range |-> <<>>, i |-> s.i]
    ELSE RangeOfEnds(s.parts, s.i)

\* lines 385-402, the body of the try for one token
ParseToken(elementRangeText, iv) ==
    RangeAfterStrip(StripEnds(Split(elementRangeText, "-"), 1, iv))

\* except ValueError: only a failed int() is caught
CaughtValueErrorOnly(exc) == exc = "ValueError"

\* line 403: a bare except catches every exception
Caught(exc) == TRUE

\* lines 383-404: the loop over the comma-separated tokens
\* r is the outcome of the try body for token k
RECURSIVE CollectRanges(_, _, _, _)
CollectNext(tokens, k, elementRanges, r) ==
    IF r.exc = "none"
    THEN CollectRanges(tokens, k + 1, r.i, Append(elementRanges, r.range))
    ELSE IF Caught(r.exc)
    THEN CollectRanges(tokens, k + 1, r.i, elementRanges)
    ELSE [exc |-> r.exc, ranges |-> elementRanges]

CollectRanges(tokens, k, iv, elementRanges) ==
    IF k > Len(tokens) THEN [exc |-> "none", ranges |-> elementRanges]
    ELSE CollectNext(tokens, k, elementRanges, ParseToken(tokens[k], iv))

-----------------------------------------------------------------------------
(* Lines 405-414: sort and merge. *)

\* list order of two [start, stop] lists
RangeBefore(x, y) == x[1] < y[1] \/ (x[1] = y[1] /\ x[2] < y[2])

\* line 405: elementRanges.sort()
Sorted(elementRanges) == SortSeq(elementRanges, RangeBefore)

\* only overlapping ranges are merged, adjacent ones are not
MergeableOverlapOnly(previous, next) == next[1] <= previous[2]

\* ranges one identifier apart are merged too
MergeableAcrossGap(previous, next) == next[1] <= previous[2] + 2

\* line 409: the test that merges range i into range i - 1
Mergeable(previous, next) == next[1] <= previous[2] + 1

\* the merged range always takes the end of the later range
MergedStopOfNext(previous, next) == next[2]

\* lines 410-411: the end of the merged range
MergedStop(previous, next) == IF next[2] > previous[2] THEN next[2] ELSE previous[2]

\* lines 407-414; i is the 1-based position of elementRanges[i]
RECURSIVE MergeLoop(_, _)
MergeLoop(elementRanges, i) ==
    IF i > Len(elementRanges) THEN elementRanges
    ELSE IF Mergeable(elementRanges[i - 1], elementRanges[i])
         THEN MergeLoop(
                SubSeq(elementRanges, 1, i - 2)
                  \o <<<<elementRanges[i - 1][1],
                         MergedStop(elementRanges[i - 1], elementRanges[i])>>>>
                  \o SubSeq(elementRanges, i + 1, Len(elementRanges)),
                i)
         ELSE MergeLoop(elementRanges, i + 1)

Merged(elementRanges) == MergeLoop(elementRanges, 2)

-----------------------------------------------------------------------------
(* Lines 415-424: the canonical text of a range list. *)

\* the two ends are joined by the component delimiter
RangeTextWithComma(elementRange) ==
    IF elementRange[2] # elementRange[1]
    THEN Str(elementRange[1]) \o <<",">> \o Str(elementRange[2])
    ELSE Str(elementRange[1])

\* lines 422-424: one range
RangeText(elementRange) ==
    IF elementRange[2] # elementRange[1]
    THEN Str(elementRange[1]) \o <<"-">> \o Str(elementRange[2])
    ELSE Str(elementRange[1])

\* the delimiter is written before the first range as well
DelimiterAlways(first) == <<",">>

\* lines 418-421: the delimiter written before a range
Delimiter(first) == IF first THEN <<>> ELSE <<",">>

RECURSIVE FormatLoop(_, _, _)
FormatLoop(elementRanges, k, elementRangesText) ==
    IF k > Len(elementRanges) THEN elementRangesText
    ELSE FormatLoop(elementRanges, k + 1,
                    elementRangesText \o Delimiter(k = 1) \o RangeText(elementRanges[k]))

RangesText(elementRanges) == FormatLoop(elementRanges, 1, <<>>)

\* lines 415-424 on the merged list
WithText(elementRanges) ==
    [exc |-> "none", ranges |-> elementRanges, text |-> RangesText(elementRanges)]

\* lines 405-424; c is the outcome of lines 382-404
Canonical(c) ==
    IF c.exc # "none" THEN [exc |-> c.exc, ranges |-> <<>>, text |-> <<>>]
    ELSE WithText(Merged(Sorted(c.ranges)))

\* the list starts from the ranges the model holds
HeldList == deleteElementRanges

\* line 382: elementRanges = []
NewList == <<>>

\* lines 382-424: everything the call computes before it touches self
ParseRanges(textIn) ==
    Canonical(CollectRanges(Split(textIn, ","), 1, <<>>, NewList))

\* only the number of ranges is compared
RangesChangedByLength(old, new) == Len(old) # Len(new)

\* line 425
RangesChanged(old, new) == old # new

-----------------------------------------------------------------------------
(* Input texts: built from tokens, so that what a text is meant to denote   *)
(* is known without parsing it.                                             *)

Token(kind, a, b) == [kind |-> kind, a |-> a, b |-> b]

\* a single non-negative integer, or two joined by a dash
WellFormedTokens(ids) ==
    {Token("single", a, a) : a \in ids} \cup {Token("range", a, b) : a \in ids, b \in ids}

\* digits followed by stray non-digit characters
TrailingTokens(as, bs) ==
    {Token("trailing", a, a) : a \in as}
    \cup {Token(k, a, b) : k \in {"trailingStart", "trailingEnd", "trailingBoth"},
                           a \in as, b \in bs}

\* tokens with a part that holds no integer
SkippedTokens(as) ==
    {Token("empty", 0, 0), Token("letters", 0, 0)}
    \cup {Token(k, a, a) : k \in {"dangling", "leading"}, a \in as}

\* tokens with more than two dash-separated parts
LongTokens(as, bs) ==
    {Token(k, a, b) : k \in {"triple", "doubleDash"}, a \in as, b \in bs}

TokenText(t) ==
    CASE t.kind = "single"        -> Str(t.a)
      [] t.kind = "range"         -> Str(t.a) \o <<"-">> \o Str(t.b)
      [] t.kind = "trailing"      -> Str(t.a) \o <<"s">>
      [] t.kind = "trailingStart" -> Str(t.a) \o <<"s", "-">> \o Str(t.b)
      [] t.kind = "trailingEnd"   -> Str(t.a) \o <<"-">> \o Str(t.b) \o <<"s", "s">>
      [] t.kind = "trailingBoth"  -> Str(t.a) \o <<"s", "-">> \o Str(t.b) \o <<"s">>
      [] t.kind = "empty"         -> <<>>
      [] t.kind = "letters"       -> <<"a", "b", "c">>
      [] t.kind = "dangling"      -> Str(t.a) \o <<"-">>
      [] t.kind = "leading"       -> <<"-">> \o Str(t.a)
      [] t.kind = "triple"        -> Str(t.a) \o <<"-">> \o Str(t.b) \o <<"-">> \o Str(t.a)
      [] t.kind = "doubleDash"    -> Str(t.a) \o <<"-", "-">> \o Str(t.b)

RECURSIVE JoinTokens(_, _)
JoinTokens(tokens, k) ==
    IF k > Len(tokens) THEN <<>>
    ELSE (IF k = 1 THEN <<>> ELSE <<",">>) \o TokenText(tokens[k]) \o JoinTokens(tokens, k + 1)

TextOf(tokens) == JoinTokens(tokens, 1)

\* the longer the text, the smaller its identifiers
IdLimit(n) == IF n <= 1 THEN MaxId1 ELSE IF n = 2 THEN MaxId2 ELSE IF n = 3 THEN MaxId3 ELSE 1

TokensAt(n) ==
    LET ids == 0..IdLimit(n)
        as  == IF n <= 1 THEN ids ELSE {IdLimit(n)}
        bs  == IF n <= 1 THEN ids ELSE {0}
    IN  WellFormedTokens(ids) \cup TrailingTokens(as, bs) \cup SkippedTokens(as)
          \cup LongTokens(as, bs)

\* the texts the specification of the parser works through by name
FiveThreeEightToTenNine ==
    <<Token("single", 5, 5), Token("single", 3, 3), Token("range", 8, 10),
      Token("single", 9, 9)>>

OneToThreeFourToSix == <<Token("range", 1, 3), Token("range", 4, 6)>>

OneToThreeFiveToSix == <<Token("range", 1, 3), Token("range", 5, 6)>>

TenToTwo == <<Token("range", 10, 2)>>

ThreeEmptyLettersDangling ==
    <<Token("single", 3, 3), Token("empty", 0, 0), Token("letters", 0, 0),
      Token("dangling", 7, 7)>>

Examples ==
    {FiveThreeEightToTenNine, OneToThreeFourToSix, OneToThreeFiveToSix, TenToTwo,
     ThreeEmptyLettersDangling}

TokenSeqs == Examples \cup UNION {[1..n -> TokensAt(n)] : n \in 0..MaxTokens}

\* texts typed into the model with history: short, small identifiers
TypedTokens ==
    WellFormedTokens(0..MaxTypedId) \cup TrailingTokens({MaxTypedId}, {0})
      \cup SkippedTokens({MaxTypedId}) \cup LongTokens({MaxTypedId}, {0})

TypedTokenSeqs ==
    {<<>>} \cup {<<t>> : t \in TypedTokens}
      \cup {<<Token("single", a, a), Token("single", b, b)>> : a, b \in 0..MaxTypedId}

\* the canonical range list of a set of identifiers: its maximal runs, ascending
RECURSIVE CanonicalOf(_)
CanonicalOf(ids) ==
    IF ids = {} THEN <<>>
    ELSE LET lo == CHOOSE x \in ids : \A y \in ids : x <= y
             hi == CHOOSE x \in ids : /\ \A y \in lo..x : y \in ids
                                      /\ (x + 1) \notin ids
         IN  <<<<lo, hi>>>> \o CanonicalOf(ids \ (lo..hi))

\* the identifiers a range list denotes
IdsOf(elementRanges) ==
    UNION {elementRanges[k][1]..elementRanges[k][2] : k \in 1..Len(elementRanges)}

-----------------------------------------------------------------------------
(* The scaffoldmaker library as the model uses it: three scaffold types,    *)
(* their parameter sets and options, and ScaffoldPackage values             *)
(* [scaffoldType, scaffoldSettings, meshEdits], meshEdits <<>> being None.  *)

\* line 72: scaffolds.getScaffoldTypes()
AllScaffoldTypes == <<"box", "tube", "sphere">>

\* line 73: scaffolds.getDefaultScaffoldType()
DefaultScaffoldType == "box"

\* lines 76, 183, 242: scaffoldType.getParameterSetNames(), a new list on each call
ParameterSetNames(scaffoldType) ==
    IF scaffoldType = "box" THEN <<"Default", "Fine">> ELSE <<"Default">>

\* lines 204, 208: getOptionValidScaffoldTypes(optionName)
OptionValidScaffoldTypes(parentScaffoldType, optionName) ==
    IF parentScaffoldType = "box" /\ optionName = "child" THEN {"tube", "sphere"} ELSE {}

\* lines 180, 255: getOptionScaffoldPackage(optionName, scaffoldType, parameterSetName)
LeafPackage(scaffoldType) ==
    [scaffoldType |-> scaffoldType,
     scaffoldSettings |-> [elementsCount |-> IF scaffoldType = "sphere" THEN 2 ELSE 1],
     meshEdits |-> <<>>]

\* line 252: scaffoldType.getDefaultOptions(parameterSetName)
DefaultOptions(scaffoldType, name) ==
    IF scaffoldType = "box"
    THEN [elementsCount |-> IF name = "Fine" THEN 2 ELSE 1, child |-> LeafPackage("tube")]
    ELSE LeafPackage(scaffoldType).scaffoldSettings

\* lines 74, 177, 252: ScaffoldPackage(scaffoldType, {'scaffoldSettings': ...})
ScaffoldPackage(scaffoldType, scaffoldSettings) ==
    [scaffoldType |-> scaffoldType, scaffoldSettings |-> scaffoldSettings,
     meshEdits |-> <<>>]

\* lines 298-299: the options whose value is a ScaffoldPackage
PackageOptionNames(package) == DOMAIN package.scaffoldSettings \ {"elementsCount"}

\* line 354: the options whose value is an int
IntOptionNames(package) == DOMAIN package.scaffoldSettings \cap {"elementsCount"}

\* line 366: scaffoldType.checkOptions(settings) raises a count below 1 to 1
CheckOptions(scaffoldSettings) ==
    IF scaffoldSettings.elementsCount < 1
    THEN [scaffoldSettings EXCEPT !.elementsCount = 1]
    ELSE scaffoldSettings

\* line 69
nodeDerivativeLabels == <<"D1", "D2", "D3", "D12", "D13", "D23", "D123">>

\* line 820
derivativesCount == Len(nodeDerivativeLabels)

\* line 777: the versions of each derivative at each node of the mesh a scaffold
\* type generates; a tube has two versions of D1 at its first node
VersionsOfType ==
    [scaffoldType \in {"box", "tube", "sphere"} |->
        [n \in 1..NumNodes |->
            [d \in 1..derivativesCount |->
                IF scaffoldType = "tube" /\ n = 1 /\ d = 1 THEN 2 ELSE 1]]]

GeneratedVersions(package) == VersionsOfType[package.scaffoldType]

-----------------------------------------------------------------------------
(* State of a constructed MeshGeneratorModel, lines 57-99. *)

\* line 74: the object the constructor makes. An object is named by the age of
\* the root package it is or belongs to, 1 for the root made or loaded last and
\* 0 for any root before it, followed by the option names that lead from the
\* root to it
ConstructedObject == <<1>>

Constructed ==
    /\ deleteElementRanges = <<>>
    /\ settings = [scaffoldPackage |-> ConstructedObject, deleteElementRanges |-> <<>>]
    /\ scaffoldPackages
         = <<ScaffoldPackage(DefaultScaffoldType,
                             DefaultOptions(DefaultScaffoldType, "Default"))>>
    /\ scaffoldPackageOptionNames = <<"None">>
    /\ scaffoldPackageObjects = <<ConstructedObject>>
    /\ parameterSetName = ParameterSetNames(DefaultScaffoldType)[1]
    /\ customScaffoldPackage = <<>>
    /\ unsavedNodeEdits = FALSE
    /\ region = <<>>

NoHistory ==
    /\ held = <<>>
    /\ changed = FALSE
    /\ raised = "none"
    /\ selection = {}
    /\ regenerations = 0
    /\ before = <<>>
    /\ switched = <<>>
    /\ vectorIn = <<>>
    /\ vectorOut = <<>>

\* the fields of self the parser on its own never touches
scaffoldVars ==
    <<scaffoldPackages, scaffoldPackageOptionNames, scaffoldPackageObjects, parameterSetName,
      customScaffoldPackage, unsavedNodeEdits>>

otherVars == <<regenerations, before, switched, vectorIn, vectorOut>>

\* the text is stored as it was typed
StoreParsedRawText(current, textIn, p) ==
    /\ elementRangesTextIn' = textIn
    /\ held' = deleteElementRanges
    /\ raised' = p.exc
    /\ changed' = RangesChanged(deleteElementRanges, p.ranges)
    /\ deleteElementRanges' = p.ranges
    /\ settings' = [current EXCEPT !.deleteElementRanges = textIn]

\* lines 425-428 after lines 382-424: the call's effect on self and its result;
\* current is self._settings as the caller left it
StoreParsed(current, textIn, p) ==
    /\ elementRangesTextIn' = textIn
    /\ held' = deleteElementRanges
    /\ raised' = p.exc
    /\ IF p.exc # "none"
       THEN /\ changed' = FALSE
            /\ deleteElementRanges' = deleteElementRanges
            /\ settings' = current
       ELSE /\ changed' = RangesChanged(deleteElementRanges, p.ranges)
            /\ deleteElementRanges' = p.ranges
            /\ settings' = [current EXCEPT !.deleteElementRanges = p.text]

ParseDeleteElementsRangesText(current, textIn) ==
    StoreParsed(current, textIn, ParseRanges(textIn))

-----------------------------------------------------------------------------
(* The parser on its own: one call on a freshly constructed model. *)

InitParse ==
    /\ Constructed
    /\ NoHistory
    /\ op = "typed"
    /\ tokensIn \in TokenSeqs
    /\ elementRangesTextIn = TextOf(tokensIn)
    /\ rangeSetIn = <<>>

ParseTyped ==
    /\ op = "typed"
    /\ op' = "_parseDeleteElementsRangesText"
    /\ ParseDeleteElementsRangesText(settings, elementRangesTextIn)
    /\ UNCHANGED <<scaffoldVars, otherVars, region, tokensIn, selection, rangeSetIn>>

NextParse == ParseTyped

SpecParse == InitParse /\ [][NextParse]_vars

-----------------------------------------------------------------------------
(* The model object with its history of calls. *)

\* line 777: the elements scaffoldPackage.generate puts in the new region
GeneratedElements == 1..NumElements

\* the ends of a range are spared
DestroyedInside(elements, elementRanges, packages) ==
    IF Len(elementRanges) = 0 \/ Len(packages) > 1 THEN {}
    ELSE {identifier \in elements :
             \E k \in 1..Len(elementRanges) :
                 /\ identifier > elementRanges[k][1]
                 /\ identifier < elementRanges[k][2]}

\* lines 715-734: the elements _deleteElementsInRanges destroys
DestroyedElements(elements, elementRanges, packages) ==
    IF Len(elementRanges) = 0 \/ Len(packages) > 1 THEN {}
    ELSE {identifier \in elements :
             \E k \in 1..Len(elementRanges) :
                 /\ identifier >= elementRanges[k][1]
                 /\ identifier <= elementRanges[k][2]}

\* lines 833-835: the derivatives of one node that have the version sought,
\* among those that reached the last version
FoundAt(nodeVersions, maxVersions, lastVersion, version) ==
    {d \in 1..derivativesCount :
        maxVersions[d] = lastVersion /\ nodeVersions[d] >= version}

\* lines 832-839: each of them gets the version, one more field and is counted
WithFound(found, ds, version) ==
    [maxVersions |-> [d \in 1..derivativesCount |->
                         IF d \in ds THEN version ELSE found.maxVersions[d]],
     nodeDerivativeFields |-> [d \in 1..derivativesCount |->
                         IF d \in ds THEN found.nodeDerivativeFields[d] + 1
                         ELSE found.nodeDerivativeFields[d]],
     foundCount |-> found.foundCount + Cardinality(ds)]

\* lines 831-839: one node
DerivativeLoop(nodeVersions, found, lastVersion, version) ==
    WithFound(found, FoundAt(nodeVersions, found.maxVersions, lastVersion, version),
              version)

\* lines 829-840: the nodes in turn, until every derivative is counted
RECURSIVE NodeLoop(_, _, _, _, _)
NodeLoop(versions, n, found, lastVersion, version) ==
    IF n > Len(versions) \/ found.foundCount >= derivativesCount THEN found
    ELSE NodeLoop(versions, n + 1,
                  DerivativeLoop(versions[n], found, lastVersion, version),
                  lastVersion, version)

\* line 828: the derivatives that stopped below the last version
Stopped(found, lastVersion) ==
    [found EXCEPT !.foundCount
        = Cardinality({d \in 1..derivativesCount : found.maxVersions[d] < lastVersion})]

\* lines 825-844: one version after another
RECURSIVE VersionLoop(_, _, _, _)
VersionNext(versions, found, version) ==
    IF found.foundCount >= derivativesCount THEN found
    ELSE VersionLoop(versions, found, version, version + 1)

VersionLoop(versions, found, lastVersion, version) ==
    VersionNext(versions,
                NodeLoop(versions, 1, Stopped(found, lastVersion), lastVersion, version),
                version)

\* lines 819-844: the number of node-value fields made for each derivative
NodeDerivativeFields(versions) ==
    VersionLoop(versions,
                [maxVersions |-> [d \in 1..derivativesCount |-> 1],
                 nodeDerivativeFields |-> [d \in 1..derivativesCount |-> 1],
                 foundCount |-> 0],
                1, 2).nodeDerivativeFields

\* lines 819-844 for the meshes the scaffold types generate, worked out once
GeneratedFields ==
    [versions \in {VersionsOfType[scaffoldType] : scaffoldType \in DOMAIN VersionsOfType}
        |-> NodeDerivativeFields(versions)]

\* lines 819-844 for any mesh
FieldsOf(versions) ==
    IF versions \in DOMAIN GeneratedFields THEN GeneratedFields[versions]
    ELSE NodeDerivativeFields(versions)

\* lines 793-1028: the region with the graphics of its nodes made
CreateGraphics(mesh) ==
    <<mesh[1], mesh[2], mesh[3], FieldsOf(mesh[3])>>

\* line 777: scaffoldPackage.generate makes the elements and nodes and reads
\* the package's mesh edits into the meshEdits group
Generated(package) ==
    <<GeneratedElements,
      IF package.meshEdits = <<>> THEN {} ELSE package.meshEdits[1],
      GeneratedVersions(package),
      <<>>>>

\* line 783: self._deleteElementsInRanges()
WithoutDestroyed(mesh, elementRanges, packages) ==
    <<mesh[1] \ DestroyedElements(mesh[1], elementRanges, packages),
      mesh[2], mesh[3], mesh[4]>>

\* lines 768-791: the region _generateMesh leaves behind
GenerateMesh(elementRanges, packages) ==
    CreateGraphics(WithoutDestroyed(Generated(packages[Len(packages)]),
                                    elementRanges, packages))

\* lines 446-461: the text of the selected identifiers, iterated in ascending order
RECURSIVE SelectionLoop(_, _, _, _)
SelectionLoop(rest, startIdentifier, lastIdentifier, elementRangesText) ==
    IF rest = {}
    THEN IF lastIdentifier > startIdentifier
         THEN elementRangesText \o <<"-">> \o Str(lastIdentifier)
         ELSE elementRangesText
    ELSE LET identifier == CHOOSE x \in rest : \A y \in rest : x <= y
         IN  IF identifier > lastIdentifier + 1
             THEN SelectionLoop(rest \ {identifier}, identifier, identifier,
                    (IF lastIdentifier > startIdentifier
                     THEN elementRangesText \o <<"-">> \o Str(lastIdentifier)
                     ELSE elementRangesText) \o <<",">> \o Str(identifier))
             ELSE SelectionLoop(rest \ {identifier}, startIdentifier, identifier,
                                elementRangesText)

SelectionText(elements) ==
    LET first == CHOOSE x \in elements : \A y \in elements : x <= y
    IN  SelectionLoop(elements \ {first}, first, first, Str(first))

\* the selection is appended without the delimiter
AppendedTextNoComma(stored, elements) == stored \o SelectionText(elements)

\* line 463: the text handed on by deleteElementsSelection
AppendedText(stored, elements) == stored \o <<",">> \o SelectionText(elements)

-----------------------------------------------------------------------------
(* The methods that work on the scaffold packages, as functions of self:    *)
(* the record of the scaffold fields, the region and the regenerations      *)
(* counted since the operation began.                                        *)

Self ==
    [scaffoldPackages |-> scaffoldPackages,
     scaffoldPackageOptionNames |-> scaffoldPackageOptionNames,
     scaffoldPackageObjects |-> scaffoldPackageObjects,
     parameterSetName |-> parameterSetName,
     customScaffoldPackage |-> customScaffoldPackage,
     unsavedNodeEdits |-> unsavedNodeEdits,
     region |-> region,
     regenerations |-> 0]

\* self._scaffoldPackages[-1]
Top(self) == self.scaffoldPackages[Len(self.scaffoldPackages)]

\* a nested package is the object held as its parent's option value: what is
\* written to it shows in the parent
RECURSIVE ReplaceTop(_, _, _)
ReplaceTop(packages, names, package) ==
    IF Len(packages) = 1 THEN <<package>>
    ELSE Append(ReplaceTop(SubSeq(packages, 1, Len(packages) - 1),
                           SubSeq(names, 1, Len(names) - 1),
                           [packages[Len(packages) - 1]
                              EXCEPT !.scaffoldSettings[names[Len(names)]] = package]),
                package)

SetTop(self, package) ==
    [self EXCEPT !.scaffoldPackages
        = ReplaceTop(self.scaffoldPackages, self.scaffoldPackageOptionNames, package)]

\* lines 101-107
UpdateMeshEdits(self) ==
    IF self.unsavedNodeEdits
    THEN [SetTop(self, [Top(self) EXCEPT !.meshEdits = <<self.region[2]>>])
            EXCEPT !.unsavedNodeEdits = FALSE]
    ELSE self

\* lines 113-115
CopyToCustom(self) == [self EXCEPT !.customScaffoldPackage = <<Top(self)>>]

\* lines 109-115
SaveCustomScaffoldPackage(self) == CopyToCustom(UpdateMeshEdits(self))

\* line 118
SavesCustom(self) ==
    self.customScaffoldPackage = <<>> \/ self.parameterSetName # "Custom"

\* lines 117-122
UseCustomScaffoldPackage(self) ==
    IF SavesCustom(self)
    THEN [SaveCustomScaffoldPackage(self) EXCEPT !.parameterSetName = "Custom"]
    ELSE self

\* lines 240-245
EditScaffoldParameterSetNames(self) == ParameterSetNames(Top(self).scaffoldType)

\* lines 247-256
DefaultScaffoldPackageForParameterSetName(self, name) ==
    IF Len(self.scaffoldPackages) = 1
    THEN ScaffoldPackage(Top(self).scaffoldType, DefaultOptions(Top(self).scaffoldType, name))
    ELSE LeafPackage(Top(self).scaffoldType)

\* lines 278-280
Unchecked(self) ==
    [self EXCEPT !.customScaffoldPackage = <<>>, !.unsavedNodeEdits = FALSE,
                 !.parameterSetName = "None"]

\* lines 282-284: the parameter sets whose default package equals the current one
MatchingSets(self) ==
    {k \in 1..Len(EditScaffoldParameterSetNames(self)) :
        DefaultScaffoldPackageForParameterSetName(
            self, EditScaffoldParameterSetNames(self)[k]) = Top(self)}

\* lines 282-286: the names are tried last first
LastMatching(self) ==
    EditScaffoldParameterSetNames(self)[
        CHOOSE k \in MatchingSets(self) : \A j \in MatchingSets(self) : j <= k]

\* lines 274-288
CheckCustomParameterSet(self) ==
    IF MatchingSets(self) = {} THEN UseCustomScaffoldPackage(Unchecked(self))
    ELSE [Unchecked(self) EXCEPT !.parameterSetName = LastMatching(self)]

\* lines 290-292
ClearMeshEdits(self) ==
    [SetTop(self, [Top(self) EXCEPT !.meshEdits = <<>>]) EXCEPT !.unsavedNodeEdits = FALSE]

\* lines 768-791 as a step of an operation
Regenerated(self, elementRanges) ==
    [self EXCEPT !.region = GenerateMesh(elementRanges, self.scaffoldPackages),
                 !.regenerations = @ + 1]

\* lines 175-180: line 177 initialises the root object again and line 180 copies
\* into the nested one, so the list holds the objects it held
Retyped(self, scaffoldType) ==
    IF Len(self.scaffoldPackages) = 1
    THEN [self EXCEPT !.scaffoldPackages
            = <<ScaffoldPackage(scaffoldType, DefaultOptions(scaffoldType, "Default"))>>]
    ELSE SetTop(self, LeafPackage(scaffoldType))

\* the parameter set name is left as it was
KeepName(self) == self.parameterSetName

\* line 183
FirstName(self) == EditScaffoldParameterSetNames(self)[1]

\* lines 181-183
Reset(self) ==
    [self EXCEPT !.customScaffoldPackage = <<>>, !.unsavedNodeEdits = FALSE,
                 !.parameterSetName = FirstName(self)]

\* lines 174-183
SetScaffoldType(self, scaffoldType) == Reset(Retyped(self, scaffoldType))

\* lines 318-322
AvailableParameterSetNames(self) ==
    IF self.customScaffoldPackage # <<>>
    THEN <<"Custom">> \o EditScaffoldParameterSetNames(self)
    ELSE EditScaffoldParameterSetNames(self)

\* the fields as one value
Assign(self) ==
    /\ scaffoldPackages' = self.scaffoldPackages
    /\ scaffoldPackageOptionNames' = self.scaffoldPackageOptionNames
    /\ scaffoldPackageObjects' = self.scaffoldPackageObjects
    /\ parameterSetName' = self.parameterSetName
    /\ customScaffoldPackage' = self.customScaffoldPackage
    /\ unsavedNodeEdits' = self.unsavedNodeEdits
    /\ region' = self.region
    /\ regenerations' = self.regenerations

\* what the operation leaves in self
Commit(result) == \E self \in {result} : Assign(self)

-----------------------------------------------------------------------------
(* The operations on the delete ranges. *)

Init ==
    /\ Constructed
    /\ NoHistory
    /\ op = "__init__"
    /\ tokensIn = <<>>
    /\ elementRangesTextIn = <<>>
    /\ rangeSetIn = <<>>

\* the mesh is regenerated whatever the parser returned
RegeneratesAlways(changedFlag) == TRUE

\* line 431
Regenerates(changedFlag) == changedFlag

\* lines 430-432
SetText(textIn) ==
    /\ ParseDeleteElementsRangesText(settings, textIn)
    /\ Commit(IF Regenerates(changed') THEN Regenerated(Self, deleteElementRanges')
              ELSE Self)
    /\ before' = <<>>
    /\ switched' = <<>>
    /\ UNCHANGED <<rangeSetIn, vectorIn, vectorOut>>

\* the text field is edited: setDeleteElementsRangesText(text)
SetDeleteElementsRangesText(tokens) ==
    /\ op' = "setDeleteElementsRangesText"
    /\ tokensIn' = tokens
    /\ selection' = {}
    /\ SetText(TextOf(tokens))

\* setDeleteElementsRangesText(getDeleteElementsRangesText()), lines 375-376, 430-432
ReenterDeleteElementsRangesText ==
    /\ op' = "reenter"
    /\ tokensIn' = <<>>
    /\ selection' = {}
    /\ SetText(settings.deleteElementRanges)

\* lines 434-463; elements is the scene selection within the mesh
DeleteElementsSelection(elements) ==
    /\ region # <<>>
    /\ elements \subseteq region[1]
    /\ op' = "deleteElementsSelection"
    /\ tokensIn' = <<>>
    /\ selection' = elements
    /\ IF elements # {}
       THEN SetText(AppendedText(settings.deleteElementRanges, elements))
       ELSE /\ elementRangesTextIn' = <<>>
            /\ held' = deleteElementRanges
            /\ changed' = FALSE
            /\ raised' = "none"
            /\ before' = <<>>
            /\ switched' = <<>>
            /\ Commit(Self)
            /\ UNCHANGED <<deleteElementRanges, settings, rangeSetIn, vectorIn, vectorOut>>

\* lines 683-706; loaded holds the 'deleteElementRanges' entry of the file, if any
\* line 696: self._settings.update(settings)
Updated(current, loaded, object) ==
    IF Len(loaded) = 0 THEN [current EXCEPT !.scaffoldPackage = object]
    ELSE [current EXCEPT !.scaffoldPackage = object,
                         !.deleteElementRanges = TextOf(loaded[1])]

\* line 697 on the updated settings
ParseSettings(updated) == ParseDeleteElementsRangesText(updated, updated.deleteElementRanges)

\* the list holds a copy of the package loaded, not the package itself
LoadedCopy(self, scaffoldPackage, object) ==
    [self EXCEPT !.scaffoldPackages = <<scaffoldPackage>>,
                 !.scaffoldPackageObjects = <<<<object[1] + 1>>>>,
                 !.scaffoldPackageOptionNames = <<"None">>]

\* lines 703-704
Loaded(self, scaffoldPackage, object) ==
    [self EXCEPT !.scaffoldPackages = <<scaffoldPackage>>,
                 !.scaffoldPackageObjects = <<object>>,
                 !.scaffoldPackageOptionNames = <<"None">>]

\* line 687: the package of the settings handed in is an object that self does
\* not hold yet; it is the root loaded last, and the objects held are earlier
LoadedObject == <<1>>

Earlier(object) == [object EXCEPT ![1] = 0]

EarlierSettings(current) == [current EXCEPT !.scaffoldPackage = Earlier(@)]

EarlierSelf(self) ==
    [self EXCEPT !.scaffoldPackageObjects = [k \in 1..Len(@) |-> Earlier(@[k])]]

\* lines 683-706 for settings of the current format without a 'scale' entry
SetSettings(loaded, scaffoldPackage) ==
    /\ op' = "setSettings"
    /\ tokensIn' = IF Len(loaded) = 0 THEN <<>> ELSE loaded[1]
    /\ selection' = {}
    /\ ParseSettings(Updated(EarlierSettings(settings), loaded, LoadedObject))
    /\ Commit(Regenerated(CheckCustomParameterSet(Loaded(EarlierSelf(Self), scaffoldPackage,
                                                         LoadedObject)),
                          deleteElementRanges'))
    /\ before' = <<>>
    /\ switched' = <<>>
    /\ UNCHANGED <<rangeSetIn, vectorIn, vectorOut>>

NoParse ==
    /\ tokensIn' = <<>>
    /\ elementRangesTextIn' = <<>>
    /\ held' = deleteElementRanges
    /\ changed' = FALSE
    /\ raised' = "none"
    /\ selection' = {}
    /\ UNCHANGED <<deleteElementRanges, settings, rangeSetIn, vectorIn, vectorOut>>

\* lines 299, 302-303
Pushed(self, optionName) ==
    [self EXCEPT !.scaffoldPackages = Append(@, Top(self).scaffoldSettings[optionName]),
                 !.scaffoldPackageObjects = Append(@, Append(@[Len(@)], optionName)),
                 !.scaffoldPackageOptionNames = Append(@, optionName)]

\* lines 294-305
EditScaffoldPackageOption(optionName) ==
    /\ Len(scaffoldPackages) <= MaxNesting
    /\ optionName \in PackageOptionNames(Top(Self))
    /\ op' = "editScaffoldPackageOption"
    /\ Commit(Regenerated(CheckCustomParameterSet(Pushed(ClearMeshEdits(Self), optionName)),
                          deleteElementRanges))
    /\ before' = <<>>
    /\ switched' = <<>>
    /\ NoParse

\* lines 313-314
Popped(self) ==
    [self EXCEPT !.scaffoldPackages = SubSeq(@, 1, Len(@) - 1),
                 !.scaffoldPackageObjects = SubSeq(@, 1, Len(@) - 1),
                 !.scaffoldPackageOptionNames = SubSeq(@, 1, Len(@) - 1)]

\* lines 307-316
EndEditScaffoldPackageOption ==
    /\ Len(scaffoldPackages) > 1
    /\ op' = "endEditScaffoldPackageOption"
    /\ Commit(Regenerated(CheckCustomParameterSet(Popped(UpdateMeshEdits(Self))),
                          deleteElementRanges))
    /\ before' = <<>>
    /\ switched' = <<>>
    /\ NoParse

\* the package a settings file of a new workflow step carries
NewPackage == ScaffoldPackage(DefaultScaffoldType, DefaultOptions(DefaultScaffoldType, "Default"))

Next ==
    \/ \E tokens \in TypedTokenSeqs : SetDeleteElementsRangesText(tokens)
    \/ ReenterDeleteElementsRangesText
    \/ \E elements \in SUBSET GeneratedElements : DeleteElementsSelection(elements)
    \/ SetSettings(<<>>, NewPackage)
    \/ \E tokens \in TypedTokenSeqs : SetSettings(<<tokens>>, NewPackage)
    \/ EditScaffoldPackageOption("child")
    \/ EndEditScaffoldPackageOption

Spec == Init /\ [][Next]_vars

-----------------------------------------------------------------------------
(* The operations on the scaffold packages. *)

\* the fields of self as the operation found them, with its arguments
Before(key, value) == [self |-> Self, key |-> key, value |-> value]

\* lines 364-366: the option is set and the options are checked
OptionSet(self, key, newValue) ==
    SetTop(self, [Top(self) EXCEPT !.scaffoldSettings
                     = CheckOptions([@ EXCEPT ![key] = newValue])])

\* every accepted value counts as a change
OptionChangedAlways(self, key, oldValue) == TRUE

\* line 368
OptionChanged(self, key, oldValue) == Top(self).scaffoldSettings[key] # oldValue

\* lines 368-371
AfterOptionSet(self, key, oldValue, elementRanges) ==
    IF OptionChanged(self, key, oldValue)
    THEN Regenerated(UseCustomScaffoldPackage(ClearMeshEdits(self)), elementRanges)
    ELSE self

\* lines 342-373 for an option holding an int; value is the text typed for it
SetScaffoldOption(key, value) ==
    /\ key \in IntOptionNames(Top(Self))
    /\ op' = "setScaffoldOption"
    /\ before' = Before(key, value)
    /\ switched' = <<>>
    /\ Commit(IF IntOk(value)
              THEN AfterOptionSet(OptionSet(Self, key, IntValue(value)), key,
                                  Top(Self).scaffoldSettings[key], deleteElementRanges)
              ELSE Self)
    /\ NoParse

\* the custom package is left as it was last saved
LeftUnsaved(self) == self

\* lines 331-332
SavedIfCustom(self) ==
    IF self.parameterSetName = "Custom" THEN SaveCustomScaffoldPackage(self) ELSE self

\* lines 333-336
SourceScaffoldPackage(self, name) ==
    IF name = "Custom" THEN self.customScaffoldPackage[1]
    ELSE DefaultScaffoldPackageForParameterSetName(self, name)

\* lines 337-339
Copied(self, name) ==
    [SetTop(self, SourceScaffoldPackage(self, name))
       EXCEPT !.parameterSetName = name, !.unsavedNodeEdits = FALSE]

\* lines 318-322: the name is one of those offered
Offered(self, name) ==
    \E k \in 1..Len(AvailableParameterSetNames(self)) :
        AvailableParameterSetNames(self)[k] = name

\* what is remembered of a setParameterSetName(name) that begins now: the package
\* being edited, the flag, the meshEdits group and the custom package when the
\* call leaves 'Custom'; that the call returns to 'Custom' directly after
Switch(name) ==
    IF parameterSetName = "Custom" /\ name # "Custom"
    THEN [package |-> Top(Self), unsavedNodeEdits |-> unsavedNodeEdits,
          nodes |-> region[2], customScaffoldPackage |-> customScaffoldPackage,
          to |-> name, back |-> FALSE]
    ELSE IF name = "Custom" /\ switched # <<>> /\ ~switched.back
         THEN [switched EXCEPT !.back = TRUE]
         ELSE <<>>

\* lines 330-340
SetParameterSetName(name) ==
    /\ Offered(Self, name)
    /\ op' = "setParameterSetName"
    /\ before' = <<>>
    /\ switched' = Switch(name)
    /\ Commit(Regenerated(Copied(SavedIfCustom(Self), name), deleteElementRanges))
    /\ NoParse

\* lines 194-196: the types that may be chosen for the package being edited
ValidScaffoldTypes(self) ==
    IF Len(self.scaffoldPackages) = 1
    THEN {AllScaffoldTypes[k] : k \in 1..Len(AllScaffoldTypes)}
    ELSE OptionValidScaffoldTypes(
             self.scaffoldPackages[Len(self.scaffoldPackages) - 1].scaffoldType,
             self.scaffoldPackageOptionNames[Len(self.scaffoldPackageOptionNames)])

\* lines 191-199
SetScaffoldTypeByName(name) ==
    /\ name \in ValidScaffoldTypes(Self)
    /\ op' = "setScaffoldTypeByName"
    /\ before' = <<>>
    /\ switched' = <<>>
    /\ Commit(IF name # Top(Self).scaffoldType
              THEN Regenerated(SetScaffoldType(Self, name), deleteElementRanges)
              ELSE Self)
    /\ NoParse

\* line 139
Announced(self) == [self EXCEPT !.unsavedNodeEdits = TRUE]

\* lines 141-145, and the caller adding the node it edits to the group returned
NodeAdded(self, node) == [self EXCEPT !.region[2] = @ \cup {node}]

\* lines 128-145
GetOrCreateMeshEditsNodesetGroup(node) ==
    /\ region # <<>>
    /\ op' = "getOrCreateMeshEditsNodesetGroup"
    /\ before' = <<>>
    /\ switched' = <<>>
    /\ Commit(NodeAdded(UseCustomScaffoldPackage(Announced(Self)), node))
    /\ NoParse

\* lines 1030-1031
UpdateSettingsBeforeWrite ==
    /\ op' = "updateSettingsBeforeWrite"
    /\ before' = <<>>
    /\ switched' = <<>>
    /\ Commit(UpdateMeshEdits(Self))
    /\ NoParse

\* the texts typed for an int option
OptionTexts == {Str(n) : n \in 0..MaxOption} \cup {<<"x">>, <<>>}

\* packages found in settings files: of a new step, of a step with an edited
\* option and node, and of a step with another scaffold type
LoadedPackages ==
    {NewPackage,
     [NewPackage EXCEPT !.scaffoldSettings.elementsCount = MaxOption,
                        !.meshEdits = <<{1}>>],
     LeafPackage("tube")}

NextScaffold ==
    \/ \E key \in {"elementsCount"}, value \in OptionTexts : SetScaffoldOption(key, value)
    \/ \E name \in {"Custom", "Default", "Fine"} : SetParameterSetName(name)
    \/ \E name \in {"box", "tube", "sphere"} : SetScaffoldTypeByName(name)
    \/ EditScaffoldPackageOption("child")
    \/ EndEditScaffoldPackageOption
    \/ \E node \in 1..MaxEditedNode : GetOrCreateMeshEditsNodesetGroup(node)
    \/ UpdateSettingsBeforeWrite
    \/ \E scaffoldPackage \in LoadedPackages : SetSettings(<<>>, scaffoldPackage)

SpecScaffold == Init /\ [][NextScaffold]_vars

-----------------------------------------------------------------------------
(* The graphics of a mesh whose node derivatives have several versions. *)

\* the mesh in which the highest version of derivative d is highest[d]; the
\* nodes take turns in holding it and have one version of the others
MeshWithVersions(highest) ==
    <<GeneratedElements, {},
      [n \in 1..NumNodes |->
          [d \in 1..derivativesCount |->
              IF (d % NumNodes) + 1 = n THEN highest[d] ELSE 1]],
      <<>>>>

\* line 788: a mesh has been generated and its graphics are to be made
InitGraphics ==
    /\ deleteElementRanges = <<>>
    /\ settings = [scaffoldPackage |-> ConstructedObject, deleteElementRanges |-> <<>>]
    /\ scaffoldPackages = <<NewPackage>>
    /\ scaffoldPackageOptionNames = <<"None">>
    /\ scaffoldPackageObjects = <<ConstructedObject>>
    /\ parameterSetName = "Default"
    /\ customScaffoldPackage = <<>>
    /\ unsavedNodeEdits = FALSE
    /\ region \in {MeshWithVersions(highest) :
                     highest \in [1..derivativesCount -> 1..MaxVersions]}
    /\ NoHistory
    /\ op = "_generateMesh"
    /\ tokensIn = <<>>
    /\ elementRangesTextIn = <<>>
    /\ rangeSetIn = <<>>

\* line 789
CreateGraphicsOfMesh ==
    /\ op = "_generateMesh"
    /\ op' = "_createGraphics"
    /\ region' = CreateGraphics(region)
    /\ UNCHANGED <<deleteElementRanges, settings, scaffoldVars, otherVars, tokensIn,
                   elementRangesTextIn, held, changed, raised, selection, rangeSetIn>>

NextGraphics == CreateGraphicsOfMesh

SpecGraphics == InitGraphics /\ [][NextGraphics]_vars

-----------------------------------------------------------------------------
(* parseVector3 on texts built from components, so that the value each      *)
(* component is meant to have is known without parsing it.                  *)

\* lines 469, 477, 485, 701: the delimiters and default values of the callers
VectorCalls ==
    {[delimiter |-> ",", defaultValue |-> 0],
     [delimiter |-> ",", defaultValue |-> 100],
     [delimiter |-> "*", defaultValue |-> 100]}

Components ==
    {"integer", "decimal", "negative", "padded", "pointFirst", "empty", "letters",
     "twoPoints", "signOnly", "foreign"}

\* the delimiter the call does not split at
OtherDelimiter(delimiter) == IF delimiter = "," THEN "*" ELSE ","

ComponentText(component, delimiter) ==
    CASE component = "integer"    -> <<"7">>
      [] component = "decimal"    -> <<"1", ".", "5">>
      [] component = "negative"   -> <<"-", "2", ".", "2", "5">>
      [] component = "padded"     -> <<" ", "3", " ">>
      [] component = "pointFirst" -> <<".", "5">>
      [] component = "empty"      -> <<>>
      [] component = "letters"    -> <<"a", "b">>
      [] component = "twoPoints"  -> <<"1", ".", "2", ".", "3">>
      [] component = "signOnly"   -> <<"-">>
      [] component = "foreign"    -> <<"1", OtherDelimiter(delimiter), "2">>

\* the number a component stands for, in hundredths; <<>> if it is no number
ComponentNumber(component) ==
    CASE component = "integer"    -> <<700>>
      [] component = "decimal"    -> <<150>>
      [] component = "negative"   -> <<0 - 225>>
      [] component = "padded"     -> <<300>>
      [] component = "pointFirst" -> <<50>>
      [] OTHER                    -> <<>>

RECURSIVE JoinComponents(_, _, _)
JoinComponents(components, k, delimiter) ==
    IF k > Len(components) THEN <<>>
    ELSE (IF k = 1 THEN <<>> ELSE <<delimiter>>)
           \o ComponentText(components[k], delimiter)
           \o JoinComponents(components, k + 1, delimiter)

InitVector ==
    /\ Constructed
    /\ held = <<>>
    /\ changed = FALSE
    /\ raised = "none"
    /\ selection = {}
    /\ regenerations = 0
    /\ before = <<>>
    /\ switched = <<>>
    /\ op = "typed"
    /\ tokensIn = <<>>
    /\ elementRangesTextIn = <<>>
    /\ rangeSetIn = <<>>
    /\ vectorIn \in {[components |-> components, delimiter |-> call.delimiter,
                      defaultValue |-> call.defaultValue] :
                        components \in UNION {[1..n -> Components] : n \in 1..MaxComponents},
                        call \in VectorCalls}
    /\ vectorOut = <<>>

\* lines 29-49 on the text of the components
ParseVectorTyped ==
    /\ op = "typed"
    /\ op' = "parseVector3"
    /\ vectorOut' = parseVector3(JoinComponents(vectorIn.components, 1, vectorIn.delimiter),
                              vectorIn.delimiter, vectorIn.defaultValue)
    /\ UNCHANGED <<deleteElementRanges, settings, scaffoldVars, region, tokensIn,
                   elementRangesTextIn, held, changed, raised, selection, rangeSetIn,
                   regenerations, before, switched, vectorIn>>

NextVector == ParseVectorTyped

SpecVector == InitVector /\ [][NextVector]_vars

-----------------------------------------------------------------------------
(* Format then parse of a given canonical range list. *)

RoundTripIds == (0 - MaxNegative)..MaxRoundTripId

InitRoundTrip ==
    /\ Constructed
    /\ NoHistory
    /\ op = "given"
    /\ tokensIn = <<>>
    /\ elementRangesTextIn = <<>>
    /\ rangeSetIn \in {CanonicalOf(ids) : ids \in SUBSET RoundTripIds}

\* lines 415-424 on the given list, then lines 382-428 on the text
FormatThenParse ==
    /\ op = "given"
    /\ op' = "roundTrip"
    /\ ParseDeleteElementsRangesText(settings, RangesText(rangeSetIn))
    /\ UNCHANGED <<scaffoldVars, otherVars, region, tokensIn, selection, rangeSetIn>>

NextRoundTrip == FormatThenParse

SpecRoundTrip == InitRoundTrip /\ [][NextRoundTrip]_vars

-----------------------------------------------------------------------------
(* What a text is meant to denote, token by token. *)

WellFormedKinds == {"single", "range"}

TrailingKinds == {"trailing", "trailingStart", "trailingEnd", "trailingBoth"}

SkippedKinds == {"empty", "letters", "dangling", "leading"}

LongKinds == {"triple", "doubleDash"}

KnownKinds == WellFormedKinds \cup TrailingKinds \cup SkippedKinds

Interval(t) == IF t.a <= t.b THEN t.a..t.b ELSE t.b..t.a

OnlyKinds(tokens, kinds) == \A k \in 1..Len(tokens) : tokens[k].kind \in kinds

\* the identifiers named by the tokens of the given kinds
Named(tokens, kinds) ==
    UNION {Interval(tokens[k]) : k \in {j \in 1..Len(tokens) : tokens[j].kind \in kinds}}

IsCanonical(elementRanges) ==
    /\ \A k \in 1..Len(elementRanges) : elementRanges[k][1] <= elementRanges[k][2]
    /\ \A k \in 1..(Len(elementRanges) - 1) :
           /\ elementRanges[k][1] < elementRanges[k + 1][1]
           /\ elementRanges[k + 1][1] > elementRanges[k][2] + 1

\* one range as text: the single integer, or start-end
Piece(elementRange) ==
    IF elementRange[1] = elementRange[2] THEN Str(elementRange[1])
    ELSE Str(elementRange[1]) \o <<"-">> \o Str(elementRange[2])

\* the pieces in order with a comma between neighbours
RECURSIVE Joined(_)
Joined(elementRanges) ==
    IF Len(elementRanges) = 0 THEN <<>>
    ELSE IF Len(elementRanges) = 1 THEN Piece(elementRanges[1])
    ELSE Joined(SubSeq(elementRanges, 1, Len(elementRanges) - 1))
           \o <<",">> \o Piece(elementRanges[Len(elementRanges)])

Parsed == op = "_parseDeleteElementsRangesText"

ParsingOps == {"setDeleteElementsRangesText", "reenter", "setSettings"}

\* the last operation ran _parseDeleteElementsRangesText
RanParse == op \in ParsingOps \/ (op = "deleteElementsSelection" /\ selection # {})

-----------------------------------------------------------------------------
(* Claims. *)

\* C1: in every reachable state the stored range list is canonical: each range
\* has start <= end, starts ascend, and consecutive ranges neither overlap nor touch.
C1_StoredRangesCanonical == IsCanonical(deleteElementRanges)

C1_Witness ==
    /\ op = "deleteElementsSelection"
    /\ held # <<>>
    /\ Len(deleteElementRanges) >= 2
    /\ deleteElementRanges # held

\* C2: a text of well-formed tokens parses to the canonical list of exactly the
\* identifiers its tokens name: ranges merge when they overlap or touch, stay
\* apart across a gap, and a merged range ends at the larger end.
C2_WellFormedTextDenotesUnion ==
    (Parsed /\ OnlyKinds(tokensIn, WellFormedKinds)) =>
        /\ raised = "none"
        /\ deleteElementRanges = CanonicalOf(Named(tokensIn, WellFormedKinds))
        /\ tokensIn = OneToThreeFourToSix => deleteElementRanges = <<<<1, 6>>>>
        /\ tokensIn = OneToThreeFiveToSix => deleteElementRanges = <<<<1, 3>>, <<5, 6>>>>
        /\ tokensIn = FiveThreeEightToTenNine
             => deleteElementRanges = <<<<3, 3>>, <<5, 5>>, <<8, 10>>>>

C2_Witness ==
    /\ Parsed
    /\ Len(tokensIn) = MaxTokens
    /\ OnlyKinds(tokensIn, {"range"})
    /\ \A k \in 1..Len(tokensIn) : tokensIn[k].a # tokensIn[k].b
    /\ tokensIn[1].a > tokensIn[Len(tokensIn)].a
    /\ Len(deleteElementRanges) = 1

\* C3: the parse never raises; tokens holding no integer are skipped wherever
\* they stand, and every well-formed token of the same text still gives its range.
C3_MalformedTokensSkipped ==
    /\ raised = "none"
    /\ Parsed => Named(tokensIn, WellFormedKinds) \subseteq IdsOf(deleteElementRanges)
    /\ (Parsed /\ OnlyKinds(tokensIn, WellFormedKinds \cup SkippedKinds))
          => deleteElementRanges = CanonicalOf(Named(tokensIn, WellFormedKinds))
    /\ (Parsed /\ tokensIn = ThreeEmptyLettersDangling)
          => deleteElementRanges = <<<<3, 3>>>>

C3_Witness ==
    /\ Parsed
    /\ Len(tokensIn) = MaxTokens
    /\ tokensIn[1].kind = "empty"
    /\ tokensIn[2].kind = "dangling"
    /\ tokensIn[3].kind = "range"
    /\ deleteElementRanges = <<<<tokensIn[3].a, tokensIn[3].b>>>>
    /\ tokensIn[3].a < tokensIn[3].b

\* C4: the value returned by the parse is TRUE exactly when the new range list
\* differs from the list held just before the call.
C4_ChangedIffRangesDiffer ==
    RanParse => (changed <=> deleteElementRanges # held)

C4_Witness ==
    /\ op = "setDeleteElementsRangesText"
    /\ ~changed
    /\ deleteElementRanges # <<>>
    /\ elementRangesTextIn # settings.deleteElementRanges
    /\ deleteElementRanges = held

C6_CanonicalTextIsFixedPoint ==
    op = "reenter" =>
        /\ settings.deleteElementRanges = elementRangesTextIn
        /\ deleteElementRanges = held
        /\ ~changed
        /\ raised = "none"

C6_Witness ==
    /\ op = "reenter"
    /\ Len(deleteElementRanges) >= 2
    /\ \E k \in 1..Len(deleteElementRanges) :
           deleteElementRanges[k][1] < deleteElementRanges[k][2]

\* C7: the stored text is the range list written in order with ',' between
\* ranges and nowhere else, a one-element range as its integer, a longer one as
\* start-end, and the empty list as the empty text.
C7_StoredTextIsFormat ==
    Parsed =>
        /\ settings.deleteElementRanges = Joined(deleteElementRanges)
        /\ deleteElementRanges = <<>> => settings.deleteElementRanges = <<>>
        /\ tokensIn = FiveThreeEightToTenNine
             => settings.deleteElementRanges = <<"3", ",", "5", ",", "8", "-", "1", "0">>

C7_Witness ==
    /\ Parsed
    /\ tokensIn = FiveThreeEightToTenNine
    /\ settings.deleteElementRanges = <<"3", ",", "5", ",", "8", "-", "1", "0">>

\* C8: a single token a-b is stored as the range from the smaller to the larger
\* value and is written back as a-b when a < b and as a when a = b.
C8_PairOrderedAndWrittenBack ==
    (Parsed /\ Len(tokensIn) = 1 /\ tokensIn[1].kind = "range") =>
        /\ tokensIn[1].a < tokensIn[1].b
             => /\ deleteElementRanges = <<<<tokensIn[1].a, tokensIn[1].b>>>>
                /\ settings.deleteElementRanges = elementRangesTextIn
        /\ tokensIn[1].a = tokensIn[1].b
             => /\ deleteElementRanges = <<<<tokensIn[1].a, tokensIn[1].a>>>>
                /\ settings.deleteElementRanges = Str(tokensIn[1].a)
        /\ tokensIn[1].b < tokensIn[1].a
             => deleteElementRanges = <<<<tokensIn[1].b, tokensIn[1].a>>>>
        /\ tokensIn = TenToTwo => deleteElementRanges = <<<<2, 10>>>>
        /\ \A k \in 1..Len(deleteElementRanges) :
               deleteElementRanges[k][1] <= deleteElementRanges[k][2]

C8_Witness ==
    /\ Parsed
    /\ tokensIn = TenToTwo
    /\ deleteElementRanges = <<<<2, 10>>>>

\* C9: a part made of digits followed by stray non-digit characters parses to
\* the integer of its digits, as start and as end, whatever was parsed before it.
C9_TrailingCharactersStripped ==
    /\ Parsed => Named(tokensIn, TrailingKinds) \subseteq IdsOf(deleteElementRanges)
    /\ (Parsed /\ OnlyKinds(tokensIn, WellFormedKinds \cup TrailingKinds \cup SkippedKinds))
          => deleteElementRanges
               = CanonicalOf(Named(tokensIn, WellFormedKinds \cup TrailingKinds))

C9_Witness ==
    /\ Parsed
    /\ Len(tokensIn) = 2
    /\ tokensIn[1].kind = "letters"
    /\ tokensIn[2].kind = "trailingBoth"
    /\ deleteElementRanges = <<<<0, MaxId2>>>>

\* C10: deleting a non-empty selection stores the canonical list of the
\* identifiers stored before together with the selected ones; the text parsed
\* is the stored text, a comma, and the text of the selected spans.
C10_SelectionAddsToStored ==
    (op = "deleteElementsSelection" /\ selection # {}) =>
        /\ raised = "none"
        /\ deleteElementRanges = CanonicalOf(IdsOf(held) \cup selection)
        /\ IdsOf(held) \subseteq IdsOf(deleteElementRanges)
        /\ elementRangesTextIn
             = Joined(held) \o <<",">> \o Joined(CanonicalOf(selection))

C10_Witness ==
    /\ op = "deleteElementsSelection"
    /\ held = <<>>
    /\ Cardinality(selection) >= 2
    /\ Len(deleteElementRanges) >= 2

\* C11: the range list and the stored text a call leaves behind are those of
\* the text of that call alone, whatever ranges the model held before it.
C11_ResultOfTextAlone ==
    ((op = "setDeleteElementsRangesText" \/ (op = "setSettings" /\ tokensIn # <<>>))
       /\ OnlyKinds(tokensIn, KnownKinds)) =>
        /\ deleteElementRanges
             = CanonicalOf(Named(tokensIn, WellFormedKinds \cup TrailingKinds))
        /\ settings.deleteElementRanges
             = Joined(CanonicalOf(Named(tokensIn, WellFormedKinds \cup TrailingKinds)))

C11_Witness ==
    /\ op = "setDeleteElementsRangesText"
    /\ Len(held) >= 2
    /\ deleteElementRanges # <<>>
    /\ IdsOf(held) \cap IdsOf(deleteElementRanges) = {}
    /\ OnlyKinds(tokensIn, KnownKinds)

\* C18 as stated: a token with more than two dash-separated parts contributes
\* no range: the result is that of the well-formed tokens around it.
C18_LongTokensContributeNothing ==
    (Parsed /\ OnlyKinds(tokensIn, WellFormedKinds \cup LongKinds)) =>
        deleteElementRanges = CanonicalOf(Named(tokensIn, WellFormedKinds))

\* C19: in every reachable state the stored text is the stored range list
\* written out; no operation updates one without the other.
C19_TextIsFormatOfStoredList ==
    settings.deleteElementRanges = Joined(deleteElementRanges)

C19_Witness ==
    /\ op = "setSettings"
    /\ tokensIn = <<>>
    /\ Len(held) >= 2
    /\ deleteElementRanges = held
    /\ settings.deleteElementRanges = Joined(held)

\* C13: setDeleteElementsRangesText regenerates the mesh once when the range
\* list changes and not at all when it does not, the stored text still being
\* rewritten in canonical form; setSettings regenerates it in either case.
C13_RegeneratedOnceIffChanged ==
    /\ op = "setDeleteElementsRangesText" =>
          /\ regenerations = (IF deleteElementRanges # held THEN 1 ELSE 0)
          /\ settings.deleteElementRanges = Joined(deleteElementRanges)
    /\ op = "setSettings" => regenerations = 1

C13_Witness ==
    /\ op = "setDeleteElementsRangesText"
    /\ held # <<>>
    /\ deleteElementRanges = held
    /\ elementRangesTextIn # Joined(held)
    /\ regenerations = 0
    /\ region # <<>>

\* C14: a mesh regenerated while the root package is edited holds exactly the
\* generated elements outside every stored range; regenerated while a nested
\* package is edited it holds every generated element.
C14_RegeneratedMeshWithoutRanges ==
    regenerations > 0 =>
        region[1] = IF Len(scaffoldPackages) = 1
                    THEN GeneratedElements \ IdsOf(deleteElementRanges)
                    ELSE GeneratedElements

C14_Witness ==
    /\ op = "endEditScaffoldPackageOption"
    /\ regenerations = 1
    /\ Len(deleteElementRanges) >= 2
    /\ region[1] # {}
    /\ region[1] # GeneratedElements

\* the option named in the last setScaffoldOption, before and after the call
OptionBefore == Top(before.self).scaffoldSettings[before.key]

OptionAfter == Top(Self).scaffoldSettings[before.key]

\* the text typed for the option is that of an integer
Convertible == \E n \in 0..MaxOption : before.value = Str(n)

\* C15 as stated: when getOrCreateMeshEditsNodesetGroup has returned, the
\* unsaved-node-edits flag is TRUE, whatever the parameter set was before.
C15_EditsUnsavedAfterAnnouncement ==
    op = "getOrCreateMeshEditsNodesetGroup" => unsavedNodeEdits

\* C16: setScaffoldOption with a value that after conversion and checkOptions
\* differs from the old one clears the package's mesh edits, makes 'Custom'
\* the parameter set with a custom package saved, and regenerates once; with
\* an equal value none of this happens; with a value that cannot be converted
\* the packages, the parameter set and the mesh stay as they were.
C16_OptionChangeMakesCustom ==
    op = "setScaffoldOption" =>
        /\ \A n \in 0..MaxOption :
               before.value = Str(n) => OptionAfter = (IF n < 1 THEN 1 ELSE n)
        /\ (Convertible /\ OptionAfter # OptionBefore) =>
               /\ Top(Self).meshEdits = <<>>
               /\ ~unsavedNodeEdits
               /\ parameterSetName = "Custom"
               /\ customScaffoldPackage # <<>>
               /\ regenerations = 1
        /\ (Convertible /\ OptionAfter = OptionBefore) =>
               /\ Top(Self).meshEdits = Top(before.self).meshEdits
               /\ parameterSetName = before.self.parameterSetName
               /\ customScaffoldPackage = before.self.customScaffoldPackage
               /\ regenerations = 0
               /\ region = before.self.region
        /\ ~Convertible =>
               /\ scaffoldPackages = before.self.scaffoldPackages
               /\ parameterSetName = before.self.parameterSetName
               /\ customScaffoldPackage = before.self.customScaffoldPackage
               /\ unsavedNodeEdits = before.self.unsavedNodeEdits
               /\ regenerations = 0
               /\ region = before.self.region

C16_Witness ==
    /\ op = "setScaffoldOption"
    /\ Convertible
    /\ OptionAfter # OptionBefore
    /\ Len(scaffoldPackages) > 1
    /\ Top(before.self).meshEdits # <<>>
    /\ before.self.unsavedNodeEdits
    /\ Top(Self).meshEdits = <<>>
    /\ regenerations = 1

\* C20: whenever the parameter set is 'Custom' a custom package is saved, and
\* 'Custom' is offered, first and only there, exactly when one is saved.
C20_CustomHasSavedPackage ==
    /\ parameterSetName = "Custom" => customScaffoldPackage # <<>>
    /\ customScaffoldPackage # <<>> <=> AvailableParameterSetNames(Self)[1] = "Custom"
    /\ \A k \in 2..Len(AvailableParameterSetNames(Self)) :
           AvailableParameterSetNames(Self)[k] # "Custom"

C20_Witness ==
    /\ op = "setParameterSetName"
    /\ parameterSetName = "Custom"
    /\ Len(scaffoldPackages) > 1
    /\ customScaffoldPackage = <<Top(Self)>>

\* the highest version of derivative d defined at any node of the mesh
HighestVersion(d) ==
    CHOOSE v \in 1..(MaxVersions + 1) :
        /\ \E n \in 1..Len(region[3]) : region[3][n][d] = v
        /\ \A n \in 1..Len(region[3]) : region[3][n][d] <= v

\* C17 as stated: _createGraphics makes, for each of the seven derivative
\* labels, as many node-value fields as the highest version of that
\* derivative at any node of the mesh.
C17_FieldsForEveryVersion ==
    op = "_createGraphics" =>
        \A d \in 1..derivativesCount : region[4][d] = HighestVersion(d)

\* the value the k-th component of the last parseVector3 is meant to have
Meant(k) ==
    IF ComponentNumber(vectorIn.components[k]) = <<>> THEN vectorIn.defaultValue
    ELSE ComponentNumber(vectorIn.components[k])[1]

\* C12: parseVector3 returns three values: the number of each of the first
\* three components, the default value for a component that is no number, and
\* the last component's value again for each component missing; the empty
\* text gives the default value three times.
C12_ThreeComponents ==
    op = "parseVector3" =>
        /\ Len(vectorOut) = 3
        /\ \A k \in 1..3 :
               vectorOut[k] = Meant(IF k < Len(vectorIn.components) THEN k
                                 ELSE Len(vectorIn.components))
        /\ vectorIn.components = <<"empty">> =>
               vectorOut = <<vectorIn.defaultValue, vectorIn.defaultValue,
                          vectorIn.defaultValue>>

C12_Witness ==
    /\ op = "parseVector3"
    /\ vectorIn.components = <<"letters", "negative">>
    /\ vectorIn.delimiter = "*"
    /\ vectorOut = <<100, 0 - 225, 0 - 225>>

-----------------------------------------------------------------------------
\* the last two calls were setParameterSetName(X) for a predefined X, made while
\* 'Custom' was active, and directly after it setParameterSetName('Custom')
LeftCustomAndCameBack ==
    /\ op = "setParameterSetName"
    /\ switched # <<>>
    /\ switched.back

\* the package being edited when 'Custom' was left, its mesh edits those of the
\* meshEdits group when node edits were unsaved
PackageWithNodeEdits ==
    IF switched.unsavedNodeEdits
    THEN [switched.package EXCEPT !.meshEdits = <<switched.nodes>>]
    ELSE switched.package

-----------------------------------------------------------------------------
\* C22: in every reachable state the list of scaffold packages being edited and
\* the list of their option names have the same length, at least 1; the first
\* option name is None; and the root package is the same object as
\* settings['scaffoldPackage'], also after setScaffoldTypeByName and setSettings.
C22_ListsAndRootObject ==
    /\ Len(scaffoldPackages) = Len(scaffoldPackageOptionNames)
    /\ Len(scaffoldPackages) >= 1
    /\ scaffoldPackageOptionNames[1] = "None"
    /\ scaffoldPackageObjects[1] = settings.scaffoldPackage

\* settings with a package of another scaffold type have been loaded and the
\* list and the settings hold the package loaded
C22_Witness ==
    /\ op = "setSettings"
    /\ scaffoldPackages = <<LeafPackage("tube")>>
    /\ scaffoldPackageOptionNames = <<"None">>
    /\ scaffoldPackageObjects = <<LoadedObject>>
    /\ settings.scaffoldPackage = LoadedObject

====
